---------------------------- MODULE Spec2Model ----------------------------
(***************************************************************************)
(* trenes24-backend: a polling aggregator of three GTFS-RT JSON feeds      *)
(* (vehicle positions, trip updates, alerts) behind a 30 second cache.     *)
(*                                                                         *)
(* The repository holds two revisions of the server:                       *)
(*   "part_000"  src/unnamed/part_000  (getCached, one cache slot,         *)
(*               SINID_<lat>_<lon> ids, deducirLinea, insertion order)     *)
(*   "server"    src/server.js         (getCachedData, two cache slots,    *)
(*               vehicles without trip_id dropped, sorted output)          *)
(* The variable rev says which revision the process runs.                  *)
(*                                                                         *)
(* JavaScript values are modelled by their behaviour in the code:          *)
(*   - strings are TLA+ strings; "" stands for every falsy value of a      *)
(*     string-valued field (undefined, null, ""), which the code never     *)
(*     tells apart (x || default, !x);                                     *)
(*   - coordinates are integers in 1/10000 of a degree;                    *)
(*   - a value whose shape the code does not expect carries a tag saying   *)
(*     what kind of value stands there ("null", "nonlist", "nonstr", ...). *)
(***************************************************************************)
EXTENDS Integers, Sequences, FiniteSets, TLC

(***************************************************************************)
(* Strings                                                                 *)
(***************************************************************************)

Digits == {"0", "1", "2", "3", "4", "5", "6", "7", "8", "9"}

UpperLetters ==
    {"A", "B", "C", "D", "E", "F", "G", "H", "I", "J", "K", "L", "M",
     "N", "O", "P", "Q", "R", "S", "T", "U", "V", "W", "X", "Y", "Z"}

\* s[i], the i-th character of a string
CharAt(s, i) == SubSeq(s, i, i)

\* every character of s[i..Len(s)] is in the class cls
RECURSIVE AllIn(_, _, _)
AllIn(s, i, cls) ==
    IF i > Len(s) THEN TRUE
    ELSE CharAt(s, i) \in cls /\ AllIn(s, i + 1, cls)

\* String.prototype.trim over the whitespace of the modelled alphabet (" ")
RECURSIVE TrimLeft(_)
TrimLeft(s) ==
    IF Len(s) > 0 /\ CharAt(s, 1) = " " THEN TrimLeft(Tail(s)) ELSE s

RECURSIVE TrimRight(_)
TrimRight(s) ==
    IF Len(s) > 0 /\ CharAt(s, Len(s)) = " "
    THEN TrimRight(SubSeq(s, 1, Len(s) - 1))
    ELSE s

Trim(s) == TrimRight(TrimLeft(s))

\* the leftmost i at which /([CR])([0-9A-Z]+)$/ matches s, 0 when none does
RECURSIVE MatchFrom(_, _)
MatchFrom(s, i) ==
    IF i >= Len(s) THEN 0
    ELSE IF CharAt(s, i) \in {"C", "R"} /\ AllIn(s, i + 1, Digits \cup UpperLetters)
         THEN i
         ELSE MatchFrom(s, i + 1)

\* part_000: deducirLinea(trip); match[1] + match[2] is the matched suffix
deducirLinea(trip) ==
    IF trip = "" THEN "??"
    ELSE LET i == MatchFrom(trip, 1)
         IN  IF i = 0 THEN "??" ELSE SubSeq(trip, i, Len(trip))

\* trip.split("_")[0]: the text before the first "_"
RECURSIVE SplitFirst(_, _)
SplitFirst(s, i) ==
    IF i > Len(s) THEN s
    ELSE IF CharAt(s, i) = "_" THEN SubSeq(s, 1, i - 1)
         ELSE SplitFirst(s, i + 1)

\* server.js: const linea = trip.split("_")[0] || "??"
lineaServer(trip) ==
    LET p == SplitFirst(trip, 1) IN IF p = "" THEN "??" ELSE p

\* three decimals, zero padded
Pad3(k) ==
    IF k < 10 THEN "00" \o ToString(k)
    ELSE IF k < 100 THEN "0" \o ToString(k)
         ELSE ToString(k)

\* Number.prototype.toFixed(3) of n/10000.  The sign is taken from the
\* number before rounding, so -0.0004 gives "-0.000".  A last digit of 5
\* (an exact decimal tie, which a binary double never holds exactly) is
\* outside the modelled coordinates.
toFixed3(n) ==
    LET a == IF n < 0 THEN -n ELSE n
        q == (a \div 10) + (IF a % 10 > 5 THEN 1 ELSE 0)
    IN  (IF n < 0 THEN "-" ELSE "") \o ToString(q \div 1000) \o "." \o Pad3(q % 1000)


(***************************************************************************)
(* JavaScript values of the feeds                                          *)
(*                                                                         *)
(* A feed body (what getJSON returns):                                     *)
(*   [shape |-> "null"]                          JSON null                 *)
(*   [shape |-> "scalar"]                        a number, string, boolean *)
(*   [shape |-> "object", entity |-> k, list |-> <<...>>]                  *)
(*      k = "absent"   entity is undefined or null                         *)
(*      k = "falsy"    entity is 0, "" or false                            *)
(*      k = "nonlist"  entity is a truthy value without forEach            *)
(*      k = "list"     entity is an array, its elements in list            *)
(* An entity: [kind |-> "null"] (a null element), [kind |-> "other"] (any  *)
(* value without the member the loop reads), or a vehicle, tripUpdate or   *)
(* alert record as built by Vehicle, TripUpdate and Alert below.           *)
(***************************************************************************)

NullBody == [shape |-> "null", entity |-> "absent", list |-> <<>>]
ScalarBody == [shape |-> "scalar", entity |-> "absent", list |-> <<>>]
ListBody(l) == [shape |-> "object", entity |-> "list", list |-> l]
ObjectBody(k) == [shape |-> "object", entity |-> k, list |-> <<>>]

NullEntity == [kind |-> "null"]
OtherEntity == [kind |-> "other"]

\* a trip id as it stands in the feed: absent (or falsy), a non-empty
\* string, or a truthy value that is no string (a number, true, an object)
NoTrip == [k |-> "none", s |-> ""]
StrTrip(s) == [k |-> "str", s |-> s]
NonStrTrip == [k |-> "nonstr", s |-> ""]

\* a coordinate as it stands in the feed: absent (undefined, null), a
\* number n/10000, or a truthy value that is no number
NoCoord == [k |-> "absent", n |-> 0]
Num(n) == [k |-> "num", n |-> n]
NonNum == [k |-> "nonnum", n |-> 0]

\* JavaScript truthiness of a coordinate: undefined, null and 0 are falsy
CoordTruthy(c) == c.k = "nonnum" \/ (c.k = "num" /\ c.n # 0)

\* x || null on a coordinate
CoordOrNull(c) == IF CoordTruthy(c) THEN c ELSE NoCoord

Vehicle(trip, lat, lon, status) ==
    [kind |-> "vehicle", trip |-> trip, lat |-> lat, lon |-> lon, status |-> status]

\* arrival.delay of a stop-time update: absent, or an integer of seconds
NoDelay == [has |-> FALSE, n |-> 0]
Delay(n) == [has |-> TRUE, n |-> n]
NullStu == [k |-> "null", delay |-> NoDelay]
Stu(d) == [k |-> "obj", delay |-> d]

\* stopTimeUpdate: k = "absent" (undefined, null), "nonlist" (any other
\* value without forEach) or "list"
TripUpdate(trip, k, stus) ==
    [kind |-> "tripUpdate", trip |-> trip, stuKind |-> k, stus |-> stus]

\* route: informedEntity[0].routeId; desc, header: the first translation's
\* text of descriptionText and headerText ("" when absent)
Alert(route, desc, header) ==
    [kind |-> "alert", route |-> route, desc |-> desc, header |-> header]

(***************************************************************************)
(* The trenes object of buildData: a plain object used as a map.  own is   *)
(* its own properties in insertion order, proto its prototype: the plain   *)
(* Object.prototype, or the record that trenes["__proto__"] = {...} set    *)
(* (an assignment to that key calls the __proto__ setter and creates no    *)
(* own property).                                                          *)
(***************************************************************************)

ObjectPrototype == [k |-> "Object.prototype"]
ProtoRecord(r) == [k |-> "record", r |-> r]

EmptyTrenes == [threw |-> FALSE, own |-> <<>>, proto |-> ObjectPrototype]

\* the members every plain object inherits (functions, all truthy)
ObjectPrototypeKeys ==
    {"constructor", "toString", "toLocaleString", "valueOf", "hasOwnProperty",
     "isPrototypeOf", "propertyIsEnumerable"}

TrainFields == {"trip_id", "linea", "lat", "lon", "estado", "retraso"}

OwnIndex(t, key) ==
    IF \E i \in 1..Len(t.own) : t.own[i].trip_id = key
    THEN CHOOSE i \in 1..Len(t.own) : t.own[i].trip_id = key
    ELSE 0

\* trenes[trip] = rec
AssignTrain(t, key, rec) ==
    IF key = "__proto__" THEN [t EXCEPT !.proto = ProtoRecord(rec)]
    ELSE LET i == OwnIndex(t, key)
         IN  IF i = 0 THEN [t EXCEPT !.own = Append(@, rec)]
             ELSE [t EXCEPT !.own[i] = rec]

\* what trenes[key] evaluates to: "own" (a train record), "proto" (the
\* prototype object), "function" (a member of Object.prototype),
\* "primitive" (a truthy string or number inherited from a prototype
\* record), "falsy" (undefined, or an inherited null or 0)
LookupKind(t, key) ==
    IF OwnIndex(t, key) # 0 THEN "own"
    ELSE IF key = "__proto__" THEN "proto"
    ELSE IF t.proto.k = "record" /\ key \in TrainFields THEN
        LET r == t.proto.r
        IN  IF key \in {"trip_id", "linea", "estado"} THEN "primitive"
            ELSE IF key = "lat" THEN (IF r.lat.k = "absent" THEN "falsy" ELSE "primitive")
            ELSE IF key = "lon" THEN (IF r.lon.k = "absent" THEN "falsy" ELSE "primitive")
            ELSE IF r.retraso # 0 THEN "primitive" ELSE "falsy"
    ELSE IF key \in ObjectPrototypeKeys THEN "function"
    ELSE "falsy"

\* trenes[trip].retraso = m.  The file is an ES module, so strict: setting
\* a property on a primitive throws.  A property set on Object.prototype
\* or on one of its functions changes no train record.
SetRetraso(t, key, m) ==
    LET k == LookupKind(t, key)
    IN  IF k = "own" THEN [t EXCEPT !.own[OwnIndex(t, key)].retraso = m]
        ELSE IF k = "proto" /\ t.proto.k = "record" THEN [t EXCEPT !.proto.r.retraso = m]
        ELSE IF k = "primitive" THEN [t EXCEPT !.threw = TRUE]
        ELSE t

Train(trip, linea, v) ==
    [trip_id |-> trip, linea |-> linea,
     lat |-> CoordOrNull(v.lat), lon |-> CoordOrNull(v.lon),
     estado |-> IF v.status = "" THEN "UNKNOWN" ELSE v.status,
     retraso |-> 0]

Throw(t) == [t EXCEPT !.threw = TRUE]

\* part_000, lines 49-74: one turn of vehicles.entity.forEach
VehicleStepPart000(t, ent) ==
    IF ent.kind = "null" THEN Throw(t)
    ELSE IF ent.kind # "vehicle" THEN t
    ELSE IF ent.trip.k = "nonstr" THEN Throw(t)   \* trip.match is not a function
    ELSE IF ent.trip.k = "str" THEN
        AssignTrain(t, ent.trip.s, Train(ent.trip.s, deducirLinea(ent.trip.s), ent))
    ELSE IF ~CoordTruthy(ent.lat) \/ ~CoordTruthy(ent.lon) THEN t
    ELSE IF ent.lat.k = "nonnum" \/ ent.lon.k = "nonnum" THEN Throw(t)  \* toFixed is not a function
    ELSE LET trip == "SINID_" \o toFixed3(ent.lat.n) \o "_" \o toFixed3(ent.lon.n)
         IN  AssignTrain(t, trip, Train(trip, deducirLinea(trip), ent))

\* server.js, lines 49-69: one turn of vehicles.entity.forEach
VehicleStepServer(t, ent) ==
    IF ent.kind = "null" THEN Throw(t)
    ELSE IF ent.kind # "vehicle" THEN t
    ELSE IF ent.trip.k = "none" THEN t             \* logTrenVacio(v); return
    ELSE IF ent.trip.k = "nonstr" THEN Throw(t)    \* trip.split is not a function
    ELSE AssignTrain(t, ent.trip.s, Train(ent.trip.s, lineaServer(ent.trip.s), ent))

VehicleStep(r, t, ent) ==
    IF r = "part_000" THEN VehicleStepPart000(t, ent) ELSE VehicleStepServer(t, ent)

\* variant: the division truncated toward zero instead of floored
FloorMinutesTruncated(delay) ==
    IF delay < 0 THEN 0 - ((0 - delay) \div 60) ELSE delay \div 60

\* Math.floor(delay / 60) on an integer delay
FloorMinutes(delay) == delay \div 60

\* tu.stopTimeUpdate?.forEach(stu => ...) from its i-th element on
RECURSIVE StuLoop(_, _, _, _)
StuLoop(t, trip, stus, i) ==
    IF t.threw \/ i > Len(stus) THEN t
    ELSE LET stu == stus[i]
         IN  IF stu.k = "null" THEN Throw(t)
             ELSE IF stu.delay.has /\ stu.delay.n # 0
                  THEN StuLoop(SetRetraso(t, trip, FloorMinutes(stu.delay.n)), trip, stus, i + 1)
                  ELSE StuLoop(t, trip, stus, i + 1)

\* part_000 lines 77-89, server.js lines 74-85: one turn of
\* updates.entity.forEach.  A trip id that is no string is a number, a
\* boolean or a plain object: as a property key it names no train.
UpdateStep(t, ent) ==
    IF ent.kind = "null" THEN Throw(t)
    ELSE IF ent.kind # "tripUpdate" THEN t
    ELSE IF ent.trip.k # "str" THEN t
    ELSE IF LookupKind(t, ent.trip.s) = "falsy" THEN t
    ELSE IF ent.stuKind = "absent" THEN t
    ELSE IF ent.stuKind = "nonlist" THEN Throw(t)
    ELSE StuLoop(t, ent.trip.s, ent.stus, 1)

\* the text the alert is shown with
AlertText(r, a) ==
    IF r = "part_000" THEN (IF a.desc # "" THEN a.desc ELSE a.header)
    ELSE a.header

\* part_000 lines 93-106, server.js lines 91-101: one turn of
\* alerts.entity.forEach; raw is incidenciasRaw
AlertStep(r, raw, ent) ==
    IF ent.kind = "null" THEN [raw EXCEPT !.threw = TRUE]
    ELSE IF ent.kind # "alert" THEN raw
    ELSE LET linea == IF ent.route = "" THEN "??" ELSE ent.route
             descripcion == AlertText(r, ent)
         IN  IF Trim(descripcion) = "" THEN raw
             ELSE [raw EXCEPT !.list = Append(@, [linea |-> linea, descripcion |-> descripcion])]

\* the key of the seen set
AlertKey(inc) == inc.linea \o "|" \o inc.descripcion

\* incidenciasRaw.filter(...) from the i-th element on, with the seen set
RECURSIVE DedupFrom(_, _, _)
DedupFrom(raw, i, seen) ==
    IF i > Len(raw) THEN <<>>
    ELSE IF AlertKey(raw[i]) \in seen THEN DedupFrom(raw, i + 1, seen)
         ELSE <<raw[i]>> \o DedupFrom(raw, i + 1, seen \cup {AlertKey(raw[i])})

Dedup(raw) == DedupFrom(raw, 1, {})

\* whether body.entity?.forEach(...) (part_000) or
\* if (body.entity) body.entity.forEach(...) (server.js) throws before the
\* first turn: body is null, or entity holds a value without forEach
FeedThrows(r, body) ==
    \/ body.shape = "null"
    \/ body.shape = "object" /\ body.entity = "nonlist"
    \/ body.shape = "object" /\ body.entity = "falsy" /\ r = "part_000"

\* the elements forEach visits
FeedList(body) ==
    IF body.shape = "object" /\ body.entity = "list" THEN body.list ELSE <<>>

RECURSIVE VehicleLoop(_, _, _, _)
VehicleLoop(r, t, l, i) ==
    IF t.threw \/ i > Len(l) THEN t
    ELSE VehicleLoop(r, VehicleStep(r, t, l[i]), l, i + 1)

RECURSIVE UpdateLoop(_, _, _)
UpdateLoop(t, l, i) ==
    IF t.threw \/ i > Len(l) THEN t
    ELSE UpdateLoop(UpdateStep(t, l[i]), l, i + 1)

RECURSIVE AlertLoop(_, _, _, _)
AlertLoop(r, raw, l, i) ==
    IF raw.threw \/ i > Len(l) THEN raw
    ELSE AlertLoop(r, AlertStep(r, raw, l[i]), l, i + 1)

\* VEHICLES -> trenes base
ProcessVehicles(r, vehicles) ==
    IF FeedThrows(r, vehicles) THEN Throw(EmptyTrenes)
    ELSE VehicleLoop(r, EmptyTrenes, FeedList(vehicles), 1)

\* UPDATES -> retrasos, on the trenes the vehicles left
ProcessUpdates(r, t, updates) ==
    IF t.threw THEN t
    ELSE IF FeedThrows(r, updates) THEN Throw(t)
    ELSE UpdateLoop(t, FeedList(updates), 1)

\* ALERTS -> incidenciasRaw
ProcessAlerts(r, alerts) ==
    IF FeedThrows(r, alerts) THEN [threw |-> TRUE, list |-> <<>>]
    ELSE AlertLoop(r, [threw |-> FALSE, list |-> <<>>], FeedList(alerts), 1)

\* localeCompare on the characters the sorted strings are made of:
\* punctuation before digits before letters
CollationOrder ==
    <<"_", "-", "?", ".", "0", "1", "2", "3", "4", "5", "6", "7", "8", "9",
      "A", "B", "C", "D", "E", "F", "G", "H", "I", "J", "K", "L", "M",
      "N", "O", "P", "Q", "R", "S", "T", "U", "V", "W", "X", "Y", "Z">>

CharRank(c) ==
    IF \E i \in 1..Len(CollationOrder) : CollationOrder[i] = c
    THEN CHOOSE i \in 1..Len(CollationOrder) : CollationOrder[i] = c
    ELSE Len(CollationOrder) + 1

\* a.localeCompare(b) < 0, from the i-th character on
RECURSIVE StrBefore(_, _, _)
StrBefore(a, b, i) ==
    IF i > Len(b) THEN FALSE
    ELSE IF i > Len(a) THEN TRUE
    ELSE IF CharRank(CharAt(a, i)) # CharRank(CharAt(b, i))
         THEN CharRank(CharAt(a, i)) < CharRank(CharAt(b, i))
         ELSE StrBefore(a, b, i + 1)

\* server.js lines 114-117: the comparator is negative
TrainBefore(a, b) ==
    IF a.linea = b.linea THEN StrBefore(a.trip_id, b.trip_id, 1)
    ELSE StrBefore(a.linea, b.linea, 1)

\* insert rec into the sorted list l
RECURSIVE InsertSorted(_, _)
InsertSorted(l, rec) ==
    IF l = <<>> THEN <<rec>>
    ELSE IF TrainBefore(rec, Head(l)) THEN <<rec>> \o l
         ELSE <<Head(l)>> \o InsertSorted(Tail(l), rec)

\* Object.values(trenes).sort(...): trip ids are distinct keys, so the
\* comparator never ties and every sort gives this order
RECURSIVE SortTrains(_)
SortTrains(l) ==
    IF l = <<>> THEN <<>> ELSE InsertSorted(SortTrains(Tail(l)), Head(l))

\* Object.values(trenes): the own properties (no trip id of the model is an
\* integer index, which Object.values would list first)
ObjectValues(t) == t.own

\* buildData once the three getJSON results are in: threw says the promise
\* rejects, otherwise trenes and incidencias are what it resolves to
BuildData(r, vehicles, updates, alerts) ==
    LET t == ProcessUpdates(r, ProcessVehicles(r, vehicles), updates)
        raw == IF t.threw THEN [threw |-> TRUE, list |-> <<>>]
               ELSE ProcessAlerts(r, alerts)
    IN  IF t.threw \/ raw.threw
        THEN [threw |-> TRUE, trenes |-> <<>>, incidencias |-> <<>>]
        ELSE [threw |-> FALSE,
              trenes |-> IF r = "part_000" THEN ObjectValues(t)
                         ELSE SortTrains(ObjectValues(t)),
              incidencias |-> Dedup(raw.list)]

(***************************************************************************)
(* The server                                                              *)
(***************************************************************************)

\* const CACHE_MS = 30 * 1000
CACHE_MS == 30 * 1000

\* the revisions of the repository
Revs == {"part_000", "server"}

Feeds == {"vehicles", "updates", "alerts"}

Endpoints == {"/api/trenes", "/api/incidencias", "/api/lineas"}

\* requests that can be in progress at once
MaxCalls == 2

\* fetch cycles one behaviour starts
MaxCycles == 3

\* the clock advances in steps of TickMs, MaxTicks times
TickMs == 15000
MaxTicks == 3

\* Date.now() when the process starts
StartMs == 1000000

CallIds == 1..MaxCalls

VARIABLES
    rev,        \* the revision the process runs
    up,         \* the process is running
    clock,      \* Date.now()
    outage,     \* every upstream fetch fails for now
    CACHE,      \* the cache slot(s)
    cycles,     \* the buildData runs so far; the i-th resolved value is object i
    calls,      \* the requests in progress
    lastResp,   \* how the latest request ended
    mIn,        \* merge check: the three feed bodies
    mOut        \* merge check: what buildData made of them

vars == <<rev, up, clock, outage, CACHE, cycles, calls, lastResp, mIn, mOut>>

\* the feed bodies upstream answers with while the cache is exercised
SampleVehicle == Vehicle(StrTrip("C1_001"), Num(401000), Num(-32000), "IN_TRANSIT")
SampleUpdate == TripUpdate(StrTrip("C1_001"), "list", <<Stu(Delay(185))>>)
SampleAlert == Alert("C1", "", "Retraso")

SampleBodies(f) ==
    IF f = "vehicles" THEN {ListBody(<<SampleVehicle>>), NullBody}
    ELSE IF f = "updates" THEN {ListBody(<<SampleUpdate>>)}
    ELSE {ListBody(<<SampleAlert>>)}

\* variant: a catch branch that returns null instead of an empty feed
GetJSONCatchNull(r) == NullBody

\* getJSON's catch branch: what a failed fetch or an unparsable body becomes
GetJSONCatch(r) ==
    IF r = "part_000" THEN ListBody(<<>>)      \* return { entity: [] }
    ELSE ObjectBody("absent")                   \* return { error: true }

\* what one getJSON call resolved to: failed says the catch branch ran
Fetched(failed, body) == [failed |-> failed, body |-> body]

\* the results a fetch of feed f can have under revision r: the catch
\* branch's (a fetch may fail at any time), or a body when upstream is up
FetchResults(r, f, down) ==
    {Fetched(TRUE, GetJSONCatch(r))}
        \cup (IF down THEN {} ELSE {Fetched(FALSE, b) : b \in SampleBodies(f)})

NotFetched == [f \in Feeds |-> Fetched(FALSE, ScalarBody)]

IdleCall == [pc |-> "idle", now |-> 0, cyc |-> 0, inOutage |-> FALSE]

\* lastResp while the latest step answered no request
NoResp ==
    [kind |-> "none", status |-> "none", now |-> 0,
     cyc |-> 0, tRef |-> 0, iRef |-> 0, allFailed |-> FALSE, inOutage |-> FALSE,
     trenes |-> <<>>, incidencias |-> <<>>]

\* const CACHE = { data: null, ts: 0 } (part_000);
\* const CACHE = { trenes: {data: null, ts: 0}, incidencias: {data: null, ts: 0} }
\* (server.js).  data is 0 for null, else the number of the buildData run
\* whose resolved value (part_000) or whose array (server.js) it refers to.
InitialCache(r) ==
    IF r = "part_000" THEN [data |-> 0, ts |-> 0]
    ELSE [trenes |-> [data |-> 0, ts |-> 0], incidencias |-> [data |-> 0, ts |-> 0]]

\* the condition of the if in getCached / getCachedData
CacheFresh(r, cache, now) ==
    IF r = "part_000" THEN cache.data # 0 /\ now - cache.ts < CACHE_MS
    ELSE cache.trenes.data # 0 /\ now - cache.trenes.ts < CACHE_MS

\* the runs whose trenes and whose incidencias a cache hit returns
HitTrenes(r, cache) == IF r = "part_000" THEN cache.data ELSE cache.trenes.data
HitIncidencias(r, cache) == IF r = "part_000" THEN cache.data ELSE cache.incidencias.data

\* variant: the payload is stored but the timestamp is left as it was
StoreCacheKeepsTs(r, cache, id, now) ==
    IF r = "part_000" THEN [data |-> id, ts |-> cache.ts]
    ELSE [trenes |-> [data |-> id, ts |-> cache.trenes.ts],
          incidencias |-> [data |-> id, ts |-> cache.incidencias.ts]]

\* variant: only the trenes slot is written by the two-slot revision
StoreCacheTrenesOnly(r, cache, id, now) ==
    IF r = "part_000" THEN [data |-> id, ts |-> now]
    ELSE [cache EXCEPT !.trenes = [data |-> id, ts |-> now]]

\* CACHE.data = data; CACHE.ts = now (part_000);
\* CACHE.trenes = {data: trenes, ts: now}; CACHE.incidencias = {...} (server.js)
StoreCache(r, cache, id, now) ==
    IF r = "part_000" THEN [data |-> id, ts |-> now]
    ELSE [trenes |-> [data |-> id, ts |-> now], incidencias |-> [data |-> id, ts |-> now]]

\* Array.prototype.sort() without comparator: by UTF-16 code unit
CodeUnitOrder ==
    <<"-", ".", "0", "1", "2", "3", "4", "5", "6", "7", "8", "9", "?",
      "A", "B", "C", "D", "E", "F", "G", "H", "I", "J", "K", "L", "M",
      "N", "O", "P", "Q", "R", "S", "T", "U", "V", "W", "X", "Y", "Z", "_">>

CodeUnit(c) ==
    IF \E i \in 1..Len(CodeUnitOrder) : CodeUnitOrder[i] = c
    THEN CHOOSE i \in 1..Len(CodeUnitOrder) : CodeUnitOrder[i] = c
    ELSE Len(CodeUnitOrder) + 1

RECURSIVE CodeBefore(_, _, _)
CodeBefore(a, b, i) ==
    IF i > Len(b) THEN FALSE
    ELSE IF i > Len(a) THEN TRUE
    ELSE IF CodeUnit(CharAt(a, i)) # CodeUnit(CharAt(b, i))
         THEN CodeUnit(CharAt(a, i)) < CodeUnit(CharAt(b, i))
         ELSE CodeBefore(a, b, i + 1)

RECURSIVE SortedStrings(_)
SortedStrings(S) ==
    IF S = {} THEN <<>>
    ELSE LET m == CHOOSE x \in S : \A y \in S \ {x} : CodeBefore(x, y, 1)
         IN  <<m>> \o SortedStrings(S \ {m})

\* [...new Set(trenes.map(t => t.linea))].sort()
Lineas(trenes) == SortedStrings({trenes[i].linea : i \in 1..Len(trenes)})

\* a request answered with what getCached / getCachedData returned: kind
\* "hit" or "miss", the runs tRef and iRef whose trenes and incidencias
\* these are, and the two arrays as res.json reads them
Response(kind, call, got, tRef, iRef, trenes, incidencias) ==
    [kind |-> kind, status |-> "200", now |-> call.now,
     cyc |-> call.cyc, tRef |-> tRef, iRef |-> iRef,
     allFailed |-> \A f \in Feeds : got[f].failed,
     inOutage |-> call.inOutage,
     trenes |-> trenes, incidencias |-> incidencias]

\* the body res.json sends on endpoint ep for the payload of response r (the
\* timestamp field, Date.now(), is left out): the three handlers differ in
\* nothing else
Sent(ep, r) ==
    [trenes |-> IF ep = "/api/trenes" THEN r.trenes ELSE <<>>,
     incidencias |-> IF ep = "/api/lineas" THEN <<>> ELSE r.incidencias,
     lineas |-> IF ep = "/api/lineas" THEN Lineas(r.trenes) ELSE <<>>]

\* how a rejected handler promise ends: the request is left unanswered
\* (Express 4 does not catch it), answered 500 (Express 5), or the process
\* dies of the unhandled rejection (Node's default since 15)
ThrowOutcomes == {"unanswered", "500", "crash"}

MergeIdle == [pc |-> "unused", vehicles |-> ScalarBody, updates |-> ScalarBody, alerts |-> ScalarBody]
NoMerge == [threw |-> FALSE, trenes |-> <<>>, incidencias |-> <<>>]

Init ==
    /\ rev \in Revs
    /\ up = TRUE
    /\ clock = StartMs
    /\ outage = FALSE
    /\ CACHE = InitialCache(rev)
    /\ cycles = <<>>
    /\ calls = [c \in CallIds |-> IdleCall]
    /\ lastResp = NoResp
    /\ mIn = MergeIdle
    /\ mOut = NoMerge

\* time passes
Tick ==
    /\ up
    /\ clock < StartMs + MaxTicks * TickMs
    /\ clock' = clock + TickMs
    /\ lastResp' = NoResp
    /\ UNCHANGED <<rev, up, outage, CACHE, cycles, calls, mIn, mOut>>

\* upstream goes down: from now on every fetch fails.  (A fetch may fail at
\* any time, outage or not, so an outage that ends adds no behaviour of the
\* server: outage only marks the requests made while nothing can succeed.)
OutageBegins ==
    /\ up /\ ~outage
    /\ outage' = TRUE
    /\ lastResp' = NoResp
    /\ UNCHANGED <<rev, up, clock, CACHE, cycles, calls, mIn, mOut>>

\* a request (to any of the three endpoints) whose getCached /
\* getCachedData finds the cache fresh: the handler gets the stored payload
\* and answers in the same turn
RequestHit ==
    /\ up
    /\ CacheFresh(rev, CACHE, clock)
    /\ LET t == HitTrenes(rev, CACHE)
           i == HitIncidencias(rev, CACHE)
           call == [IdleCall EXCEPT !.now = clock, !.inOutage = outage]
       IN  lastResp' = Response("hit", call, NotFetched, t, i,
                                cycles[t].trenes, cycles[i].incidencias)
    /\ UNCHANGED <<rev, up, clock, outage, CACHE, cycles, calls, mIn, mOut>>

\* a request that finds no payload or a stale one: now is taken, buildData
\* starts and issues the three fetches
RequestMiss(c) ==
    /\ up
    /\ calls[c].pc = "idle"
    /\ ~CacheFresh(rev, CACHE, clock)
    /\ Len(cycles) < MaxCycles
    /\ cycles' = Append(cycles,
           [at |-> clock, alone |-> \A d \in CallIds : calls[d].pc = "idle",
            st |-> "running", trenes |-> <<>>, incidencias |-> <<>>])
    /\ calls' = [calls EXCEPT ![c] =
           [pc |-> "fetching", now |-> clock, cyc |-> Len(cycles) + 1, inOutage |-> outage]]
    /\ lastResp' = NoResp
    /\ UNCHANGED <<rev, up, clock, outage, CACHE, mIn, mOut>>

\* upstream accepts one of the three requests and never answers: fetch(url)
\* is called without a timeout or an abort signal, so its promise never
\* settles and neither does Promise.all
FetchHangs(c) ==
    /\ up
    /\ calls[c].pc = "fetching"
    /\ calls' = [calls EXCEPT ![c].pc = "hung"]
    /\ lastResp' = NoResp
    /\ UNCHANGED <<rev, up, clock, outage, CACHE, cycles, mIn, mOut>>

Built(got) ==
    BuildData(rev, got["vehicles"].body, got["updates"].body, got["alerts"].body)

\* what getCached / getCachedData and the handler do once buildData has
\* resolved to data: store the payload with the now taken at the call, answer
StoreAndAnswer(c, got, data) ==
    /\ cycles' = [cycles EXCEPT ![calls[c].cyc] =
           [@ EXCEPT !.st = "stored", !.trenes = data.trenes,
                     !.incidencias = data.incidencias]]
    /\ CACHE' = StoreCache(rev, CACHE, calls[c].cyc, calls[c].now)
    /\ lastResp' = Response("miss", calls[c], got, calls[c].cyc, calls[c].cyc,
                            data.trenes, data.incidencias)
    /\ calls' = [calls EXCEPT ![c] = IdleCall]
    /\ UNCHANGED <<rev, up, clock, outage, mIn, mOut>>

\* what happens once buildData has thrown: the promises of buildData, of
\* getCached and of the handler reject, nothing is stored and res.json is
\* never reached
Reject(c, o) ==
    /\ cycles' = [cycles EXCEPT ![calls[c].cyc].st = "threw"]
    /\ lastResp' = [NoResp EXCEPT !.kind = "threw",
                                  !.status = IF o = "500" THEN "500" ELSE "none",
                                  !.now = calls[c].now,
                                  !.cyc = calls[c].cyc,
                                  !.inOutage = calls[c].inOutage]
    /\ up' = (o # "crash")
    /\ calls' = [calls EXCEPT ![c] = IdleCall]
    /\ UNCHANGED <<rev, clock, outage, CACHE, mIn, mOut>>

\* the last of the three getJSON promises of call c settles (the earlier
\* ones touch no state of the server), with the results v, u, a: Promise.all
\* resolves, buildData merges, getCached / getCachedData stores and the
\* handler answers, all in one turn of the event loop
FinishOk(c) ==
    /\ up
    /\ calls[c].pc = "fetching"
    /\ \E v \in FetchResults(rev, "vehicles", outage),
          u \in FetchResults(rev, "updates", outage),
          a \in FetchResults(rev, "alerts", outage) :
          LET got == [vehicles |-> v, updates |-> u, alerts |-> a]
              data == Built(got)
          IN  /\ ~data.threw
              /\ StoreAndAnswer(c, got, data)

\* the same turn when buildData throws
FinishThrows(c) ==
    /\ up
    /\ calls[c].pc = "fetching"
    /\ \E v \in FetchResults(rev, "vehicles", outage),
          u \in FetchResults(rev, "updates", outage),
          a \in FetchResults(rev, "alerts", outage) :
          /\ Built([vehicles |-> v, updates |-> u, alerts |-> a]).threw
          /\ \E o \in ThrowOutcomes : Reject(c, o)

Next ==
    \/ Tick
    \/ OutageBegins
    \/ RequestHit
    \/ \E c \in CallIds : RequestMiss(c)
    \/ \E c \in CallIds : FetchHangs(c)
    \/ \E c \in CallIds : FinishOk(c)
    \/ \E c \in CallIds : FinishThrows(c)

Spec == Init /\ [][Next]_vars

(***************************************************************************)
(* buildData on its own: the three feed bodies are drawn from bounded sets *)
(* and the merge is applied to them.                                       *)
(***************************************************************************)

\* entities per feed, stop-time updates per trip update
MaxVehicles == 2
MaxUpdates == 2
MaxStus == 2
MaxAlerts == 3

\* the sequences over S of length at most n
SeqsUpTo(S, n) == UNION {[1..k -> S] : k \in 0..n}

\* trip ids of the vehicle feed
TripIds == {"7C1", "R2_9", "__proto__"}

\* latitudes and longitudes in 1/10000 degree: absent, 0, values that round
\* to the same and to different third decimals, and a non-number
LatVals == {NoCoord, Num(0), Num(1), Num(4), Num(-4), Num(6), NonNum}
LonVals == {NoCoord, Num(0), Num(-37004)}

VehicleEntities ==
    {NullEntity, OtherEntity, Vehicle(NonStrTrip, NoCoord, NoCoord, ""),
     Vehicle(StrTrip("7C1"), Num(401236), Num(-37004), "IN_TRANSIT_TO")}
        \cup {Vehicle(StrTrip(id), NoCoord, NoCoord, "") : id \in TripIds}
        \cup {Vehicle(NoTrip, lat, lon, "") : lat \in LatVals, lon \in LonVals}

\* arrival delays in seconds: early, on time, late
DelayVals == {NoDelay, Delay(0), Delay(-30), Delay(125)}

StuVals == {NullStu} \cup {Stu(d) : d \in DelayVals}

\* trip ids of the trip-update feed: none, ids of vehicles, an id of no
\* vehicle, and a name every plain object inherits
UpdateTrips == {NoTrip, StrTrip("7C1"), StrTrip("R2_9"), StrTrip("9X"),
                StrTrip("__proto__"), StrTrip("constructor")}

UpdateEntities(n) ==
    {NullEntity, OtherEntity}
        \cup {TripUpdate(t, "list", l) : t \in UpdateTrips, l \in SeqsUpTo(StuVals, n)}
        \cup {TripUpdate(t, k, <<>>) : t \in UpdateTrips, k \in {"absent", "nonlist"}}

AlertRoutes == {"", "A", "A|B"}

\* <<descriptionText, headerText>> of an alert
AlertTexts == {<<"", "">>, <<" ", "H">>, <<"", "C">>, <<"C", "">>, <<"B|C", "H">>, <<" C", "">>}

AlertEntities ==
    {NullEntity, OtherEntity} \cup {Alert(r, t[1], t[2]) : r \in AlertRoutes, t \in AlertTexts}

\* bodies that are no entity list
OddBodies == {NullBody, ScalarBody, ObjectBody("absent"), ObjectBody("falsy"), ObjectBody("nonlist")}

SmallVehicles ==
    {ListBody(<<Vehicle(StrTrip("7C1"), NoCoord, NoCoord, "")>>),
     ListBody(<<Vehicle(StrTrip("7C1"), NoCoord, NoCoord, ""),
                Vehicle(StrTrip("R2_9"), NoCoord, NoCoord, "")>>),
     ListBody(<<Vehicle(StrTrip("__proto__"), Num(6), NoCoord, ""),
                Vehicle(StrTrip("7C1"), NoCoord, NoCoord, "")>>)}

SmallUpdates ==
    {ListBody(<<>>),
     ListBody(<<TripUpdate(StrTrip("7C1"), "list", <<Stu(Delay(125))>>)>>),
     ListBody(<<TripUpdate(StrTrip("SINID_0.000_-3.700"), "list", <<Stu(Delay(-30))>>),
                TripUpdate(StrTrip("__proto__"), "list", <<Stu(Delay(125))>>)>>)}

MergeInput(v, u, a) == [pc |-> "ready", vehicles |-> v, updates |-> u, alerts |-> a]

\* the inputs of the merge: each feed in turn is drawn from its full set
\* while the other two are drawn from a few bodies
MergeInputs ==
    {MergeInput(ListBody(l), u, ListBody(<<>>)) :
        l \in SeqsUpTo(VehicleEntities, MaxVehicles), u \in SmallUpdates}
    \cup {MergeInput(v, ListBody(l), ListBody(<<>>)) :
        v \in SmallVehicles, l \in SeqsUpTo(UpdateEntities(1), MaxUpdates)}
    \cup {MergeInput(v, ListBody(<<e>>), ListBody(<<>>)) :
        v \in SmallVehicles, e \in UpdateEntities(MaxStus)}
    \cup {MergeInput(ListBody(<<>>), ListBody(<<>>), ListBody(l)) :
        l \in SeqsUpTo(AlertEntities, MaxAlerts)}
    \cup {MergeInput(v, u, a) : v \in OddBodies, u \in OddBodies, a \in OddBodies}

MergeInit ==
    /\ rev \in Revs
    /\ up = TRUE
    /\ clock = StartMs
    /\ outage = FALSE
    /\ CACHE = InitialCache(rev)
    /\ cycles = <<>>
    /\ calls = [c \in CallIds |-> IdleCall]
    /\ lastResp = NoResp
    /\ mIn \in MergeInputs
    /\ mOut = NoMerge

\* buildData from the line after the await to its return
MergeRun ==
    /\ mIn.pc = "ready"
    /\ mOut' = BuildData(rev, mIn.vehicles, mIn.updates, mIn.alerts)
    /\ mIn' = [mIn EXCEPT !.pc = "done"]
    /\ UNCHANGED <<rev, up, clock, outage, CACHE, cycles, calls, lastResp>>

SpecMerge == MergeInit /\ [][MergeRun]_vars

(***************************************************************************)
(* Properties of the merge (SpecMerge)                                     *)
(***************************************************************************)

\* buildData has returned a result
MergeDone == mIn.pc = "done" /\ ~mOut.threw

InVehicles == IF mIn.vehicles.entity = "list" THEN mIn.vehicles.list ELSE <<>>
InUpdates == IF mIn.updates.entity = "list" THEN mIn.updates.list ELSE <<>>
InAlerts == IF mIn.alerts.entity = "list" THEN mIn.alerts.list ELSE <<>>

OutTripIds == {mOut.trenes[i].trip_id : i \in 1..Len(mOut.trenes)}

\* a stop-time update with a non-zero arrival delay
HasDelay(stu) == stu.k = "obj" /\ stu.delay.has /\ stu.delay.n # 0

\* the non-zero arrival delays of the trip updates of trip, in feed order
RECURSIVE AppliedDelaysFrom(_, _)
AppliedDelaysFrom(trip, i) ==
    IF i > Len(InUpdates) THEN <<>>
    ELSE LET e == InUpdates[i]
             mine == e.kind = "tripUpdate" /\ e.trip = StrTrip(trip) /\ e.stuKind = "list"
             ds == IF mine THEN SelectSeq(e.stus, HasDelay) ELSE <<>>
         IN  [k \in 1..Len(ds) |-> ds[k].delay.n] \o AppliedDelaysFrom(trip, i + 1)

AppliedDelays(trip) == AppliedDelaysFrom(trip, 1)

\* m = floor(n / 60)
IsFloorOfMinutes(m, n) == 60 * m <= n /\ n < 60 * (m + 1)

RetrasoAsClaimed(t) ==
    LET ds == AppliedDelays(t.trip_id)
    IN  IF ds = <<>> THEN t.retraso = 0
        ELSE IsFloorOfMinutes(t.retraso, ds[Len(ds)])

\* C6 as stated: every train's retraso is a non-negative integer, 0 when
\* no stop-time update with a non-zero arrival delay applies to its trip,
\* else floor(delay / 60) of the last such update in feed order.
C6_DelayNonNegativeFloor ==
    MergeDone =>
        \A i \in 1..Len(mOut.trenes) :
            mOut.trenes[i].retraso >= 0 /\ RetrasoAsClaimed(mOut.trenes[i])

\* C6 amended: every train's retraso is an integer, 0 when no stop-time
\* update with a non-zero arrival delay applies to its trip, else
\* floor(delay / 60) of the last such update in feed order, which is
\* negative when that delay is negative.
C6_DelayIsFloorOfLast ==
    MergeDone => \A i \in 1..Len(mOut.trenes) : RetrasoAsClaimed(mOut.trenes[i])

\* a train whose trip got two non-zero delays, the last of them early
C6_Witness ==
    /\ MergeDone
    /\ \E i \in 1..Len(mOut.trenes) :
          LET ds == AppliedDelays(mOut.trenes[i].trip_id)
          IN  Len(ds) >= 2 /\ ds[1] > 0 /\ ds[Len(ds)] < 0 /\ mOut.trenes[i].retraso < 0

\* the id the claim gives a vehicle without trip id at a position
SinId(e) == "SINID_" \o toFixed3(e.lat.n) \o "_" \o toFixed3(e.lon.n)

Positioned(e) == e.kind = "vehicle" /\ e.trip.k = "none" /\ e.lat.k = "num" /\ e.lon.k = "num"

\* C7 as stated, for the revision that builds SINID ids: every vehicle
\* without trip id whose latitude and longitude are present has a train
\* with tripId SINID_<lat>_<lon>, both rounded to 3 decimals; vehicles that
\* round to the same values are one train; a vehicle with neither trip id
\* nor position has no train.
C7_PositionedVehicleHasSinId ==
    (MergeDone /\ rev = "part_000") =>
        /\ \A k \in 1..Len(InVehicles) :
              Positioned(InVehicles[k]) => SinId(InVehicles[k]) \in OutTripIds
        /\ \A i, j \in 1..Len(mOut.trenes) :
              mOut.trenes[i].trip_id = mOut.trenes[j].trip_id => i = j
        /\ \A i \in 1..Len(mOut.trenes) :
              \E k \in 1..Len(InVehicles) :
                  \/ InVehicles[k].kind = "vehicle"
                        /\ InVehicles[k].trip = StrTrip(mOut.trenes[i].trip_id)
                  \/ Positioned(InVehicles[k])
                        /\ mOut.trenes[i].trip_id = SinId(InVehicles[k])

\* the (line, description) pairs of the alerts whose text is not blank, in
\* feed order
RECURSIVE RawPairsFrom(_)
RawPairsFrom(i) ==
    IF i > Len(InAlerts) THEN <<>>
    ELSE LET e == InAlerts[i]
             text == IF e.kind = "alert" THEN AlertText(rev, e) ELSE ""
         IN  (IF Trim(text) = "" THEN <<>>
              ELSE <<[linea |-> IF e.route = "" THEN "??" ELSE e.route,
                      descripcion |-> text]>>)
             \o RawPairsFrom(i + 1)

RawPairs == RawPairsFrom(1)

\* the first occurrence of every pair, in order
FirstOccurrences(l) ==
    LET keep == {i \in 1..Len(l) : \A j \in 1..(i - 1) : l[j] # l[i]}
        RECURSIVE Pick(_)
        Pick(i) == IF i > Len(l) THEN <<>>
                   ELSE (IF i \in keep THEN <<l[i]>> ELSE <<>>) \o Pick(i + 1)
    IN  Pick(1)

\* C8 as stated: the output holds exactly one alert for each distinct
\* (line, description) pair of the raw alerts, no pair twice, in the order
\* of first occurrence.
C8_OneAlertPerPair ==
    MergeDone => mOut.incidencias = FirstOccurrences(RawPairs)

\* the ids the code resolves the vehicles of the feed to
ResolvedId(e) ==
    IF e.trip.k = "str" THEN e.trip.s ELSE SinId(e)

Resolvable(e) ==
    /\ e.kind = "vehicle"
    /\ \/ e.trip.k = "str"
       \/ rev = "part_000" /\ e.trip.k = "none" /\ CoordTruthy(e.lat) /\ CoordTruthy(e.lon)

ResolvedIds == {ResolvedId(InVehicles[k]) : k \in {n \in 1..Len(InVehicles) : Resolvable(InVehicles[n])}}

\* a trip update whose trip id is absent or is the id of no vehicle
Unmatched(e) ==
    e.kind = "tripUpdate" /\ (e.trip.k # "str" \/ e.trip.s \notin ResolvedIds)

Matched(e) == ~Unmatched(e)

\* C10 as stated: the tripIds of the result are exactly the ids resolved
\* from the vehicle feed (trip updates create no train), and the trip
\* updates of no vehicle change no train: without them the trains are the
\* same.
C10_TripUpdatesOnlyAnnotate ==
    MergeDone =>
        /\ OutTripIds = ResolvedIds
        /\ LET kept == [mIn.updates EXCEPT !.list = SelectSeq(InUpdates, Matched)]
               without == BuildData(rev, mIn.vehicles, kept, mIn.alerts)
           IN  ~without.threw /\ mOut.trenes = without.trenes

(***************************************************************************)
(* Properties of the cache and of the handlers (Spec, FairSpec)            *)
(***************************************************************************)

\* the stored timestamp the freshness test reads
CacheTs == IF rev = "part_000" THEN CACHE.ts ELSE CACHE.trenes.ts

\* a payload is stored and it is younger than 30 seconds at time t
StoredYoungerThan30s(t) ==
    /\ HitTrenes(rev, CACHE) # 0
    /\ t - CacheTs < 30000

Answered == lastResp.kind \in {"hit", "miss"}

\* the answer carries the stored payload object, unchanged
AnswersStoredPayload ==
    /\ lastResp.tRef = HitTrenes(rev, CACHE)
    /\ lastResp.iRef = HitIncidencias(rev, CACHE)
    /\ lastResp.trenes = cycles[lastResp.tRef].trenes
    /\ lastResp.incidencias = cycles[lastResp.iRef].incidencias

\* C1 as stated: whatever the calls, also those that arrive while a fetch
\* is in flight, any two fetch cycles start at least 30 seconds apart.
C1_OneCyclePerWindow ==
    \A i, j \in 1..Len(cycles) :
        i < j => cycles[j].at - cycles[i].at >= 30000

\* C1 amended: among the calls that arrive while no fetch is in flight, a
\* fetch cycle that stored its payload is followed by no other cycle for 30
\* seconds, and a call that finds the stored payload younger than 30
\* seconds gets that very payload; calls that arrive while an earlier
\* call's fetch is in flight on an absent or stale cache each start a cycle
\* of their own.
C1_OneCyclePerWindowWhenAlone ==
    /\ \A i, j \in 1..Len(cycles) :
          (i < j /\ cycles[i].alone /\ cycles[j].alone /\ cycles[i].st = "stored")
              => cycles[j].at - cycles[i].at >= 30000
    /\ lastResp.kind = "hit" =>
          StoredYoungerThan30s(lastResp.now) /\ AnswersStoredPayload

\* a second cycle started alone, 30 seconds or more after a stored one
C1_Witness ==
    \E i, j \in 1..Len(cycles) :
        /\ i < j /\ cycles[i].alone /\ cycles[j].alone
        /\ cycles[i].st = "stored" /\ cycles[j].st = "stored"

\* C2 as stated: a call starts a fetch cycle exactly when no payload is
\* stored or the stored one is 30 seconds old or older; a call that finds
\* a younger payload returns it unchanged; a call that starts a cycle
\* starts one and replaces the stored timestamp by its own.
C2_RefreshIffStale ==
    /\ (ENABLED RequestHit) <=> (up /\ StoredYoungerThan30s(clock))
    /\ \A c \in CallIds :
          (up /\ calls[c].pc = "idle" /\ Len(cycles) < MaxCycles)
              => ((ENABLED RequestMiss(c)) <=> ~StoredYoungerThan30s(clock))
    /\ lastResp.kind = "hit" =>
          StoredYoungerThan30s(lastResp.now) /\ AnswersStoredPayload
    /\ lastResp.kind \in {"miss", "threw"} =>
          /\ cycles[lastResp.cyc].at = lastResp.now
          /\ CacheTs = lastResp.now

\* C3 as stated: whatever the feed bodies, every request is answered, and
\* with status 200.
C3_Always200 ==
    lastResp.kind # "none" => lastResp.status = "200"

NothingSent == [trenes |-> <<>>, incidencias |-> <<>>, lineas |-> <<>>]

AllEmpty == \A ep \in Endpoints : Sent(ep, lastResp) = NothingSent

\* C5 as stated: every request made while every fetch fails is answered
\* with 200 and empty trenes, incidencias and lineas.
C5_OutageAnswersEmpty ==
    (lastResp.kind # "none" /\ lastResp.inOutage) =>
        lastResp.status = "200" /\ AllEmpty

\* C5 amended: a fetch cycle whose three fetches fail ends in an answer of
\* 200 with empty trenes, incidencias and lineas, the failures never leave
\* getJSON; a request made during the outage is answered with 200 and
\* either those empty arrays or, while the payload stored before the
\* outage is younger than 30 seconds, that payload.
C5_OutageAnswersEmptyOrCached ==
    /\ (lastResp.kind = "miss" /\ lastResp.allFailed) =>
          lastResp.status = "200" /\ AllEmpty
    /\ (lastResp.kind # "none" /\ lastResp.inOutage) =>
          /\ lastResp.status = "200"
          /\ \/ lastResp.kind = "miss" /\ lastResp.allFailed /\ AllEmpty
             \/ lastResp.kind = "hit" /\ StoredYoungerThan30s(lastResp.now)
                   /\ AnswersStoredPayload

\* a request of the outage answered from a cycle whose three fetches failed
C5_Witness ==
    lastResp.kind = "miss" /\ lastResp.allFailed /\ lastResp.inOutage

\* what is stored comes from one buildData run, with the now of its call
CacheWhole ==
    /\ HitTrenes(rev, CACHE) = HitIncidencias(rev, CACHE)
    /\ rev = "server" => CACHE.trenes.ts = CACHE.incidencias.ts
    /\ IF HitTrenes(rev, CACHE) = 0 THEN CacheTs = 0
       ELSE /\ cycles[HitTrenes(rev, CACHE)].st = "stored"
            /\ cycles[HitTrenes(rev, CACHE)].at = CacheTs

\* what a reader gets comes from one buildData run
AnswerWhole ==
    Answered =>
        /\ lastResp.tRef = lastResp.iRef
        /\ cycles[lastResp.tRef].st = "stored"
        /\ lastResp.trenes = cycles[lastResp.tRef].trenes
        /\ lastResp.incidencias = cycles[lastResp.iRef].incidencias

\* a payload, once built, is never written again
PayloadsKept ==
    \A i \in 1..Len(cycles) :
        cycles[i].st = "stored" => (Len(cycles') >= i /\ cycles'[i] = cycles[i])

\* C9: under every interleaving the stored trenes, incidencias and
\* timestamp are those of one refresh (the last to finish), every payload
\* returned comes whole from one fetch cycle, and no payload changes once
\* it is built.
C9_PayloadWholeAndKept ==
    [](CacheWhole /\ AnswerWhole) /\ [][PayloadsKept]_vars

\* a hit answered from the cycle that stored last although another cycle
\* started later and stored first
C9_Witness ==
    /\ lastResp.kind = "hit"
    /\ Len(cycles) >= 2
    /\ lastResp.tRef = 1
    /\ cycles[2].st = "stored"

\* the three fetches settle unless one of them hangs, and the turn that
\* follows the last of them runs
FairSpec ==
    Spec /\ \A c \in CallIds : WF_vars(FetchHangs(c) \/ FinishOk(c) \/ FinishThrows(c))

\* C4 as stated: every call that started a fetch cycle returns, also when
\* upstream never answers one of the fetches.
C4_EveryRefreshReturns ==
    \A c \in CallIds : (calls[c].pc # "idle") ~> (calls[c].pc = "idle" \/ ~up)

==========================================================================
